---------------------------- MODULE Spec2Model ----------------------------
(***************************************************************************)
(* termstr: styled terminal text.                                          *)
(*                                                                         *)
(*   term.py    TermString: a str with embedded escape sequences and a     *)
(*              counter esc_len of the characters they take.               *)
(*   models.py  Span / Div: a tree whose style bits, colours and padding   *)
(*              are turned into escape sequences by _style at str() time.  *)
(*                                                                         *)
(* A str is a sequence of one-character strings; the escape character is   *)
(* written "ESC".  Objects live in heaps indexed by identity, so aliasing  *)
(* (one Span appended to two Divs) is visible.  A run works on one of the  *)
(* two representations: ts = NoTerm in a run on Spans and Divs, and both   *)
(* heaps stay empty in a run on a TermString.                              *)
(***************************************************************************)
EXTENDS Integers, Sequences, FiniteSets, TLC

VARIABLES ts, spans, divs, last, ops

vars == <<ts, spans, divs, last, ops>>

(***************************************************************************)
(* Bounds.                                                                 *)
(***************************************************************************)
MaxData == 19

MaxLen == 2

MaxWidth == 4

MaxRepeat == 2

MaxSpans == 4

MaxDivs == 2

MaxChildren == 4

MaxOps == 4

MaxPad == 1

(***************************************************************************)
(* str primitives.                                                         *)
(***************************************************************************)
Spaces(n) == [i \in 1..(IF n > 0 THEN n ELSE 0) |-> " "]

RECURSIVE Repeat(_, _)
Repeat(s, n) == IF n <= 0 THEN <<>> ELSE s \o Repeat(s, n - 1)

str_center(s, width) ==
    IF Len(s) >= width THEN s
    ELSE LET marg == width - Len(s)
             left == (marg \div 2) + ((marg % 2) * (width % 2))
         IN  Spaces(left) \o s \o Spaces(marg - left)

str_ljust(s, width) == IF Len(s) >= width THEN s ELSE s \o Spaces(width - Len(s))

str_rjust(s, width) == IF Len(s) >= width THEN s ELSE Spaces(width - Len(s)) \o s

(***************************************************************************)
(* const.py (ESCSEQ) is not among the sources: the table is the one the    *)
(* specification describes, category -> name -> raw sequence, with the     *)
(* standard SGR codes.                                                     *)
(***************************************************************************)
CSI(code) == <<"ESC", "[">> \o code \o <<"m">>

ESCSEQ ==
    [style |-> ("bold" :> CSI(<<"1">>) @@ "dim" :> CSI(<<"2">>)
                @@ "italic" :> CSI(<<"3">>) @@ "underline" :> CSI(<<"4">>)
                @@ "blink" :> CSI(<<"5">>) @@ "reverse" :> CSI(<<"7">>)
                @@ "invisible" :> CSI(<<"8">>) @@ "strikethrough" :> CSI(<<"9">>)),
     reset |-> ("bold/dim" :> CSI(<<"2", "2">>) @@ "italic" :> CSI(<<"2", "3">>)
                @@ "underline" :> CSI(<<"2", "4">>) @@ "blink" :> CSI(<<"2", "5">>)
                @@ "reverse" :> CSI(<<"2", "7">>) @@ "invisible" :> CSI(<<"2", "8">>)
                @@ "strikethrough" :> CSI(<<"2", "9">>)
                @@ "foreground" :> CSI(<<"3", "9">>)
                @@ "background" :> CSI(<<"4", "9">>)),
     foreground |-> ("red" :> CSI(<<"3", "1">>) @@ "blue" :> CSI(<<"3", "4">>)),
     background |-> ("red" :> CSI(<<"4", "1">>) @@ "blue" :> CSI(<<"4", "4">>))]

\* The number of characters of s that belong to an escape sequence: from an
\* ESC to the "m" that ends it.
RECURSIVE EscScan(_, _, _)
EscScan(s, i, inside) ==
    IF i > Len(s) THEN 0
    ELSE IF inside THEN 1 + EscScan(s, i + 1, s[i] # "m")
    ELSE IF s[i] = "ESC" THEN 1 + EscScan(s, i + 1, TRUE)
    ELSE EscScan(s, i + 1, FALSE)

EscBytes(s) == EscScan(s, 1, FALSE)

(***************************************************************************)
(* term.py: TermString.  A value is [data, esc_len]; each method maps the  *)
(* receiver to the receiver after the call.                                *)
(***************************************************************************)
NoTerm == [data |-> <<>>, esc_len |-> -1]

TermString_init(seq) == [data |-> seq, esc_len |-> 0]

TermString_copy(seq) == [data |-> seq.data, esc_len |-> seq.esc_len]

\* __from_escseq: the direct accessor, keys known to be present.
from_escseq_direct(cat, key) ==
    [data |-> ESCSEQ[cat][key], esc_len |-> Len(ESCSEQ[cat][key])]

\* from_escseq: the safe accessor; NoTerm stands for None.
from_escseq(cat, key) ==
    IF cat \notin DOMAIN ESCSEQ THEN NoTerm
    ELSE IF key \notin DOMAIN ESCSEQ[cat] THEN NoTerm
    ELSE [data |-> ESCSEQ[cat][key], esc_len |-> Len(ESCSEQ[cat][key])]

TermString_add(self, other) ==
    [data |-> self.data \o other.data, esc_len |-> self.esc_len + other.esc_len]

TermString_add_str(self, other) == [self EXCEPT !.data = self.data \o other]

TermString_radd(self, other) == [self EXCEPT !.data = other \o self.data]

\* TermString_mul without the n > 0 test on esc_len.
TermString_mul_unguarded(self, n) ==
    [data |-> Repeat(self.data, n), esc_len |-> self.esc_len * n]

TermString_mul(self, n) ==
    [data |-> Repeat(self.data, n),
     esc_len |-> self.esc_len * (IF n > 0 THEN n ELSE 0)]

TermString_len(self) == Len(self.data) - self.esc_len

TermString_center(self, width) ==
    [self EXCEPT !.data = str_center(self.data, width + self.esc_len)]

TermString_ljust(self, width) ==
    [self EXCEPT !.data = str_ljust(self.data, width + self.esc_len)]

TermString_rjust(self, width) ==
    [self EXCEPT !.data = str_rjust(self.data, width + self.esc_len)]

\* set_bold, set_dim, set_italic, set_underline, set_strikethrough:
\* open + data + close, esc_len grown by both lengths.
TermString_wrap(self, open, unset) ==
    [data |-> open.data \o self.data \o unset.data,
     esc_len |-> self.esc_len + open.esc_len + unset.esc_len]

TermString_set_style(self, key, resetkey) ==
    TermString_wrap(self, from_escseq_direct("style", key),
                    from_escseq_direct("reset", resetkey))

TermString_set_bold_dim(self) ==
    LET bold == from_escseq_direct("style", "bold")
        dim == from_escseq_direct("style", "dim")
        unset == from_escseq_direct("reset", "bold/dim")
    IN  [data |-> bold.data \o dim.data \o self.data \o unset.data,
         esc_len |-> self.esc_len + bold.esc_len + dim.esc_len + unset.esc_len]

\* TermString_set_color appending the reset before the lookup is known to succeed.
TermString_set_color_eager(self, cat, color) ==
    LET color_seq == from_escseq(cat, color)
        unset == from_escseq_direct("reset", cat)
    IN  IF color_seq = NoTerm
        THEN [ok |-> FALSE,
              self |-> [data |-> self.data \o unset.data,
                        esc_len |-> self.esc_len + unset.esc_len]]
        ELSE [ok |-> TRUE, self |-> TermString_wrap(self, color_seq, unset)]

\* set_color / set_color_bg: [ok, self]; ok = FALSE is the ValueError.
TermString_set_color(self, cat, color) ==
    LET color_seq == from_escseq(cat, color)
    IN  IF color_seq = NoTerm THEN [ok |-> FALSE, self |-> self]
        ELSE [ok |-> TRUE,
              self |-> TermString_wrap(self, color_seq,
                                       from_escseq_direct("reset", cat))]


(***************************************************************************)
(* models.py: AbstractBaseContainer, Span, Div.                            *)
(*                                                                         *)
(* A Span is [data: str, style, foreground, background, padding]; a Div is *)
(* the same with data a sequence of Span ids.  Neither __init__ assigns    *)
(* padding (the class body only annotates it), so the attribute does not   *)
(* exist until center/ljust/rjust assigns it: Unset.  Reading it raises    *)
(* AttributeError.                                                         *)
(***************************************************************************)
Unset == <<>>

None == "None"

Span_init(seq, style, foreground, background) ==
    [data |-> seq, style |-> style, foreground |-> foreground,
     background |-> background, padding |-> Unset]

\* Span(seq) with seq a Span: data copied, a non-default argument overrides.
Span_init_copy(seq, style, foreground, background) ==
    [data |-> seq.data,
     style |-> IF style # 0 THEN style ELSE seq.style,
     foreground |-> IF foreground # None THEN foreground ELSE seq.foreground,
     background |-> IF background # None THEN background ELSE seq.background,
     padding |-> Unset]

Div_init(style, foreground, background) ==
    [data |-> <<>>, style |-> style, foreground |-> foreground,
     background |-> background, padding |-> Unset]

Span__len(self) == Len(self.data)

\* __len__: _len() + padding[0] + padding[1]
Container_len(self, n) == n + self.padding[1] + self.padding[2]

Span_len_raises(self) == self.padding = Unset

Span_len(self) == Container_len(self, Span__len(self))

RECURSIVE SumLen(_, _, _)
SumLen(sp, ids, i) ==
    IF i > Len(ids) THEN 0 ELSE Span_len(sp[ids[i]]) + SumLen(sp, ids, i + 1)

\* Div._len: the sum of i.len() over the children; a child without padding
\* raises.
Div__len_raises(sp, self) ==
    \E i \in 1..Len(self.data) : Span_len_raises(sp[self.data[i]])

Div__len(sp, self) == SumLen(sp, self.data, 1)

Div_len_raises(sp, self) == Div__len_raises(sp, self) \/ self.padding = Unset

Div_len(sp, self) == Container_len(self, Div__len(sp, self))

\* center / ljust / rjust, with n the value of self._len()
center(self, n, width) ==
    LET diff == width - n
        front == diff \div 2
        back == diff - front
    IN  IF diff > 0 THEN [self EXCEPT !.padding = <<front, back>>] ELSE self

ljust(self, n, width) ==
    LET diff == width - n
    IN  IF diff > 0 THEN [self EXCEPT !.padding = <<0, diff>>] ELSE self

rjust(self, n, width) ==
    LET diff == width - n
    IN  IF diff > 0 THEN [self EXCEPT !.padding = <<diff, 0>>] ELSE self

Bit(style, b) == (style \div (2 ^ b)) % 2

\* The tests of _style in the order of the code: bit, opening key, reset key.
StyleTable ==
    << <<7, "bold", "bold/dim">>, <<6, "dim", "bold/dim">>,
       <<5, "italic", "italic">>, <<4, "underline", "underline">>,
       <<3, "blink", "blink">>, <<2, "reverse", "reverse">>,
       <<1, "invisible", "invisible">>, <<0, "strikethrough", "strikethrough">> >>

\* StyleFrom with dim appending the shared reset whether or not bold did.
RECURSIVE StyleFrom_two_resets(_, _, _, _)
StyleFrom_two_resets(k, style, is_bold, result) ==
    IF k > Len(StyleTable) THEN result
    ELSE LET e == StyleTable[k]
         IN  IF Bit(style, e[1]) = 1
             THEN StyleFrom_two_resets(k + 1, style, is_bold,
                      ESCSEQ["style"][e[2]] \o result \o ESCSEQ["reset"][e[3]])
             ELSE StyleFrom_two_resets(k + 1, style, is_bold, result)

RECURSIVE StyleFrom(_, _, _, _)
StyleFrom(k, style, is_bold, result) ==
    IF k > Len(StyleTable) THEN result
    ELSE LET e == StyleTable[k]
             open == ESCSEQ["style"][e[2]]
             close == IF e[2] = "dim" /\ is_bold THEN <<>> ELSE ESCSEQ["reset"][e[3]]
         IN  IF Bit(style, e[1]) = 1
             THEN StyleFrom(k + 1, style, is_bold \/ e[2] = "bold",
                            open \o result \o close)
             ELSE StyleFrom(k + 1, style, is_bold, result)

\* _style: the style bits from bold to strikethrough, then the padding.
\* foreground and background are not read.
_style(self, text) ==
    Spaces(self.padding[1]) \o StyleFrom(1, self.style, FALSE, text)
        \o Spaces(self.padding[2])

Span_str_raises(self) == self.padding = Unset

Span_str(self) == _style(self, self.data)

RECURSIVE JoinStr(_, _, _)
JoinStr(sp, ids, i) ==
    IF i > Len(ids) THEN <<>> ELSE Span_str(sp[ids[i]]) \o JoinStr(sp, ids, i + 1)

Div_str_raises(sp, self) ==
    \/ \E i \in 1..Len(self.data) : Span_str_raises(sp[self.data[i]])
    \/ self.padding = Unset

Div_str(sp, self) == _style(self, JoinStr(sp, self.data, 1))

\* set_bold .. set_strikethrough: style |= 1 << b; unset_*: style &= ~(1 << b)
set_bit(self, b) ==
    [self EXCEPT !.style = IF Bit(self.style, b) = 1 THEN @ ELSE @ + 2 ^ b]

unset_bit(self, b) ==
    [self EXCEPT !.style = IF Bit(self.style, b) = 1 THEN @ - 2 ^ b ELSE @]

set_foreground(self, color) == [self EXCEPT !.foreground = color]

unset_foreground(self) == [self EXCEPT !.foreground = None]

set_background(self, color) == [self EXCEPT !.background = color]

unset_background(self) == [self EXCEPT !.background = None]

(***************************************************************************)
(* Calls that allocate or touch several objects map the heaps (sp: the     *)
(* Spans, dv: the Divs, both indexed by identity) to                       *)
(* [spans, divs, err, res]; res is the identity of the object returned.    *)
(***************************************************************************)
Done(sp, dv, res) == [spans |-> sp, divs |-> dv, err |-> "none", res |-> res]

Raised(sp, dv, e) == [spans |-> sp, divs |-> dv, err |-> e, res |-> 0]

Div_append(self, item) == [self EXCEPT !.data = Append(@, item)]

Div_appendleft(self, item) == [self EXCEPT !.data = <<item>> \o @]

\* deque.insert(index, item), 0 <= index <= len
Div_insert(self, index, item) ==
    [self EXCEPT !.data = SubSeq(@, 1, index) \o <<item>> \o SubSeq(@, index + 1, Len(@))]

\* Div.extend(other) with other the Div k2: a Span of other's left padding,
\* other's children themselves, a Span of other's right padding.  k is the
\* receiver; with k2 = k, other.data is read after the first append.
Div_extend(sp, dv, k, k2) ==
    LET other == dv[k2]
    IN  IF other.padding = Unset THEN Raised(sp, dv, "AttributeError")
        ELSE LET n == Len(sp)
                 sp2 == sp \o <<Span_init(Spaces(other.padding[1]), 0, None, None),
                                Span_init(Spaces(other.padding[2]), 0, None, None)>>
                 d1 == Append(dv[k].data, n + 1)
                 items == IF k2 = k THEN d1 ELSE other.data
                 d2 == [dv[k] EXCEPT !.data = d1 \o items \o <<n + 2>>]
             IN  Done(sp2, [dv EXCEPT ![k] = d2], k)

\* Div.extend(other) with other an iterable of Spans
Div_extend_iter(sp, dv, k, items) ==
    Done(sp, [dv EXCEPT ![k] = [@ EXCEPT !.data = @ \o items]], k)

\* Div.copy(): a new Div with the same attributes and the same children.
Div_copy(sp, dv, k) ==
    LET copy == Div_init(dv[k].style, dv[k].foreground, dv[k].background)
    IN  Done(sp, Append(dv, [copy EXCEPT !.data = @ \o dv[k].data]), Len(dv) + 1)

\* Span.__add__(self, other) with other a Span
Span_add_span(sp, dv, i, j) ==
    LET div == Div_append(Div_append(Div_init(0, None, None), i), j)
    IN  Done(sp, Append(dv, div), Len(dv) + 1)

\* Span.__add__(self, other) with other a Div
Span_add_div(sp, dv, i, k) ==
    LET other == dv[k]
    IN  IF other.padding = Unset THEN Raised(sp, dv, "AttributeError")
        ELSE LET n == Len(sp)
                 m == Len(dv) + 1
                 sp1 == Append(sp, Span_init(Spaces(other.padding[1]), 0, None, None))
                 div == Div_append(Div_append(Div_init(0, None, None), i), n + 1)
                 r == Div_extend(sp1, Append(dv, div), m, k)
                 div2 == [r.divs[m] EXCEPT !.style = other.style,
                                           !.foreground = other.foreground,
                                           !.background = other.background,
                                           !.padding = <<0, other.padding[2]>>]
             IN  Done(r.spans, [r.divs EXCEPT ![m] = div2], m)

\* Span.__add__(self, other) with other anything else: Span(other) appended
Span_add_other(sp, dv, i, other) ==
    LET div == Div_append(Div_append(Div_init(0, None, None), i), Len(sp) + 1)
    IN  Done(Append(sp, Span_init(other, 0, None, None)), Append(dv, div), Len(dv) + 1)

\* Span.__radd__(self, other) with other a Span
Span_radd_span(sp, dv, i, j) ==
    LET div == Div_appendleft(Div_append(Div_init(0, None, None), i), j)
    IN  Done(sp, Append(dv, div), Len(dv) + 1)

\* Span.__radd__(self, other) with other a Div: other's children, appended
\* left from the last to the first, end up in their order before the Span of
\* other's right padding.
Span_radd_div(sp, dv, i, k) ==
    LET other == dv[k]
    IN  IF other.padding = Unset THEN Raised(sp, dv, "AttributeError")
        ELSE LET n == Len(sp)
                 sp1 == Append(sp, Span_init(Spaces(other.padding[2]), 0, None, None))
                 d1 == Div_appendleft(Div_append(Div_init(0, None, None), i), n + 1)
                 div == [d1 EXCEPT !.data = other.data \o @,
                                   !.style = other.style,
                                   !.foreground = other.foreground,
                                   !.background = other.background,
                                   !.padding = <<other.padding[1], 0>>]
             IN  Done(sp1, Append(dv, div), Len(dv) + 1)

Span_radd_other(sp, dv, i, other) ==
    LET div == Div_appendleft(Div_append(Div_init(0, None, None), i), Len(sp) + 1)
    IN  Done(Append(sp, Span_init(other, 0, None, None)), Append(dv, div), Len(dv) + 1)

\* Span_mul appending the source itself n times instead of n copies.
Span_mul_shared(sp, dv, i, n) ==
    LET c == IF n > 0 THEN n ELSE 0
        div == [Div_init(0, None, None) EXCEPT !.data = [j \in 1..c |-> i]]
    IN  Done(sp, Append(dv, div), Len(dv) + 1)

\* Span.__mul__(self, n): range(n) copies, each Span(self)
Span_mul(sp, dv, i, n) ==
    LET c == IF n > 0 THEN n ELSE 0
        copies == [j \in 1..c |-> Span_init_copy(sp[i], 0, None, None)]
        div == [Div_init(0, None, None) EXCEPT !.data = [j \in 1..c |-> Len(sp) + j]]
    IN  Done(sp \o copies, Append(dv, div), Len(dv) + 1)

(***************************************************************************)
(* The record of the last call: its name, operands (x, y: object ids or a  *)
(* str, n: an integer), what it raised, what it returned, and the state it *)
(* was called in.                                                          *)
(***************************************************************************)
Call(op, x, y, n, err, res) ==
    [op |-> op, x |-> x, y |-> y, n |-> n, err |-> err, res |-> res,
     ts0 |-> ts, spans0 |-> spans, divs0 |-> divs]

NoCall ==
    [op |-> "init", x |-> 0, y |-> 0, n |-> 0, err |-> "none", res |-> 0,
     ts0 |-> NoTerm, spans0 |-> <<>>, divs0 |-> <<>>]

Plains == {<<>>, <<"a">>}

Widths == 0..MaxWidth

TermWidths == 0..MaxLen

Counts == -1..MaxRepeat

StyleKeys ==
    {<<"bold", "bold/dim">>, <<"dim", "bold/dim">>, <<"italic", "italic">>,
     <<"underline", "underline">>, <<"strikethrough", "strikethrough">>}

ColorNames == {"red", "not-a-color"}

(***************************************************************************)
(* Runs on a TermString.                                                   *)
(***************************************************************************)
Flat == ts # NoTerm

\* The receiver becomes new; strings of more than MaxData characters, or of
\* more than MaxLen characters outside escape sequences, are not explored.
TermStep(op, x, n, new) ==
    /\ Flat
    /\ Len(new.data) <= MaxData
    /\ Len(new.data) - EscBytes(new.data) <= MaxLen
    /\ ts' = new
    /\ last' = Call(op, x, 0, n, "none", 0)
    /\ UNCHANGED <<spans, divs, ops>>

TSCopy == TermStep("copy", 0, 0, TermString_copy(ts))

\* t + other with other a TermString: t itself, a wrapped plain str, or
\* from_escseq of a known key.
TSAdd ==
    \E other \in {ts} \cup {TermString_init(p) : p \in Plains}
                  \cup {from_escseq("style", "bold")} :
        TermStep("add", other, 0, TermString_add(ts, other))

TSAddStr == \E p \in Plains : TermStep("add_str", p, 0, TermString_add_str(ts, p))

TSRadd == \E p \in Plains : TermStep("radd", p, 0, TermString_radd(ts, p))

TSMul == \E n \in Counts : TermStep("mul", 0, n, TermString_mul(ts, n))

TSCenter == \E w \in TermWidths : TermStep("center", 0, w, TermString_center(ts, w))

TSLjust == \E w \in TermWidths : TermStep("ljust", 0, w, TermString_ljust(ts, w))

TSRjust == \E w \in TermWidths : TermStep("rjust", 0, w, TermString_rjust(ts, w))

TSSetStyle ==
    \E k \in StyleKeys :
        TermStep("set_style", k[1], 0, TermString_set_style(ts, k[1], k[2]))

TSSetBoldDim == TermStep("set_style", "bold_dim", 0, TermString_set_bold_dim(ts))

TSSetColor ==
    \E cat \in {"foreground", "background"}, c \in ColorNames :
        LET r == TermString_set_color(ts, cat, c)
        IN  /\ Flat
            /\ Len(r.self.data) <= MaxData
            /\ Len(r.self.data) - EscBytes(r.self.data) <= MaxLen
            /\ ts' = r.self
            /\ last' = Call("set_color", c, cat, 0,
                            IF r.ok THEN "none" ELSE "ValueError", 0)
            /\ UNCHANGED <<spans, divs, ops>>

InitTerm ==
    /\ ts \in {TermString_init(p) : p \in Plains}
    /\ spans = <<>>
    /\ divs = <<>>
    /\ last = NoCall
    /\ ops = 0

NextTerm ==
    \/ TSCopy
    \/ TSAdd
    \/ TSAddStr
    \/ TSRadd
    \/ TSMul
    \/ TSCenter
    \/ TSLjust
    \/ TSRjust
    \/ TSSetStyle
    \/ TSSetBoldDim
    \/ TSSetColor

SpecTerm == InitTerm /\ [][NextTerm]_vars


(***************************************************************************)
(* Runs on Spans and Divs.  An object is named by <<"span", i>> or         *)
(* <<"div", k>>.                                                           *)
(***************************************************************************)
Structured == ts = NoTerm

SpanIds == 1..Len(spans)

DivIds == 1..Len(divs)

Refs == {<<"span", i>> : i \in SpanIds} \cup {<<"div", k>> : k \in DivIds}

Obj(ref) == IF ref[1] = "span" THEN spans[ref[2]] ELSE divs[ref[2]]

Put(ref, new) ==
    IF ref[1] = "span" THEN Done([spans EXCEPT ![ref[2]] = new], divs, ref[2])
    ELSE Done(spans, [divs EXCEPT ![ref[2]] = new], ref[2])

\* self._len() of the object named
InnerRaises(ref) == ref[1] = "div" /\ Div__len_raises(spans, divs[ref[2]])

InnerLen(ref) ==
    IF ref[1] = "span" THEN Span__len(spans[ref[2]]) ELSE Div__len(spans, divs[ref[2]])

LenRaises(sp, dv, ref) ==
    IF ref[1] = "span" THEN Span_len_raises(sp[ref[2]])
    ELSE Div_len_raises(sp, dv[ref[2]])

LenOf(sp, dv, ref) ==
    IF ref[1] = "span" THEN Span_len(sp[ref[2]]) ELSE Div_len(sp, dv[ref[2]])

StrRaises(sp, dv, ref) ==
    IF ref[1] = "span" THEN Span_str_raises(sp[ref[2]])
    ELSE Div_str_raises(sp, dv[ref[2]])

StrOf(sp, dv, ref) ==
    IF ref[1] = "span" THEN Span_str(sp[ref[2]]) ELSE Div_str(sp, dv[ref[2]])

\* The heaps become r's; heaps beyond the bounds are not explored.
HeapStep(op, x, y, n, r) ==
    /\ Structured
    /\ Len(r.spans) <= MaxSpans
    /\ Len(r.divs) <= MaxDivs
    /\ \A k \in 1..Len(r.divs) : Len(r.divs[k].data) <= MaxChildren
    /\ spans' = r.spans
    /\ divs' = r.divs
    /\ last' = Call(op, x, y, n, r.err, r.res)
    /\ UNCHANGED ts

NewSpan(seq, style, fg, bg) ==
    HeapStep("Span", seq, <<fg, bg>>, style,
             Done(Append(spans, Span_init(seq, style, fg, bg)), divs, Len(spans) + 1))

CopySpan(i, style, fg, bg) ==
    HeapStep("Span_copy", i, <<fg, bg>>, style,
             Done(Append(spans, Span_init_copy(spans[i], style, fg, bg)), divs,
                  Len(spans) + 1))

NewDiv(style, fg, bg) ==
    HeapStep("Div", 0, <<fg, bg>>, style,
             Done(spans, Append(divs, Div_init(style, fg, bg)), Len(divs) + 1))

Center(ref, w) ==
    HeapStep("center", ref, 0, w,
             IF InnerRaises(ref) THEN Raised(spans, divs, "AttributeError")
             ELSE Put(ref, center(Obj(ref), InnerLen(ref), w)))

Ljust(ref, w) ==
    HeapStep("ljust", ref, 0, w,
             IF InnerRaises(ref) THEN Raised(spans, divs, "AttributeError")
             ELSE Put(ref, ljust(Obj(ref), InnerLen(ref), w)))

Rjust(ref, w) ==
    HeapStep("rjust", ref, 0, w,
             IF InnerRaises(ref) THEN Raised(spans, divs, "AttributeError")
             ELSE Put(ref, rjust(Obj(ref), InnerLen(ref), w)))

LenCall(ref) ==
    HeapStep("len", ref, 0, 0,
             IF LenRaises(spans, divs, ref) THEN Raised(spans, divs, "AttributeError")
             ELSE Done(spans, divs, LenOf(spans, divs, ref)))

StrCall(ref) ==
    HeapStep("str", ref, 0, 0,
             IF StrRaises(spans, divs, ref) THEN Raised(spans, divs, "AttributeError")
             ELSE Done(spans, divs, StrOf(spans, divs, ref)))

SetStyle(ref, b) == HeapStep("set_style", ref, 0, b, Put(ref, set_bit(Obj(ref), b)))

UnsetStyle(ref, b) == HeapStep("unset_style", ref, 0, b, Put(ref, unset_bit(Obj(ref), b)))

SetForeground(ref, c) ==
    HeapStep("set_foreground", ref, c, 0, Put(ref, set_foreground(Obj(ref), c)))

UnsetForeground(ref) ==
    HeapStep("unset_foreground", ref, 0, 0, Put(ref, unset_foreground(Obj(ref))))

SetBackground(ref, c) ==
    HeapStep("set_background", ref, c, 0, Put(ref, set_background(Obj(ref), c)))

UnsetBackground(ref) ==
    HeapStep("unset_background", ref, 0, 0, Put(ref, unset_background(Obj(ref))))

SpanAddSpan(i, j) == HeapStep("add_span", i, j, 0, Span_add_span(spans, divs, i, j))

SpanAddDiv(i, k) == HeapStep("add_div", i, k, 0, Span_add_div(spans, divs, i, k))

SpanAddOther(i, p) == HeapStep("add_other", i, p, 0, Span_add_other(spans, divs, i, p))

SpanRaddSpan(i, j) == HeapStep("radd_span", i, j, 0, Span_radd_span(spans, divs, i, j))

SpanRaddDiv(i, k) == HeapStep("radd_div", i, k, 0, Span_radd_div(spans, divs, i, k))

SpanRaddOther(i, p) ==
    HeapStep("radd_other", i, p, 0, Span_radd_other(spans, divs, i, p))

SpanMul(i, n) == HeapStep("mul", i, 0, n, Span_mul(spans, divs, i, n))

DivAppend(k, i) ==
    HeapStep("append", k, i, 0, Put(<<"div", k>>, Div_append(divs[k], i)))

DivAppendleft(k, i) ==
    HeapStep("appendleft", k, i, 0, Put(<<"div", k>>, Div_appendleft(divs[k], i)))

DivInsert(k, index, i) ==
    HeapStep("insert", k, i, index, Put(<<"div", k>>, Div_insert(divs[k], index, i)))

DivExtend(k, k2) ==
    HeapStep("extend", k, k2, 0, Div_extend(spans, divs, k, k2))

DivExtendIter(k, i) ==
    HeapStep("extend_iter", k, i, 0, Div_extend_iter(spans, divs, k, <<i>>))

DivCopy(k) == HeapStep("copy", k, 0, 0, Div_copy(spans, divs, k))

(***************************************************************************)
(* Composition: constructors, +, *, the Div methods, alignment, len, str.  *)
(* At most MaxOps calls are made.                                          *)
(***************************************************************************)
Bold == 128

Payloads == {<<"a">>, <<"x">>}

InitDom ==
    /\ ts = NoTerm
    /\ spans = <<>>
    /\ divs = <<>>
    /\ last = NoCall
    /\ ops = 0

\* A call within the budget of MaxOps calls.
Counted(A) == ops < MaxOps /\ A /\ ops' = ops + 1

\* A call outside any budget.
Free(A) == A /\ UNCHANGED ops

NextDom ==
    \/ \E p \in Payloads, st \in {0, Bold} : Counted(NewSpan(p, st, None, None))
    \/ \E i \in SpanIds : Counted(CopySpan(i, 0, None, None))
    \/ Counted(NewDiv(0, None, None))
    \/ \E ref \in Refs, w \in Widths : Counted(Center(ref, w))
    \/ \E ref \in Refs, w \in Widths : Counted(Ljust(ref, w))
    \/ \E ref \in Refs, w \in Widths : Counted(Rjust(ref, w))
    \/ \E ref \in Refs : Counted(LenCall(ref))
    \/ \E ref \in Refs : Counted(StrCall(ref))
    \/ \E i, j \in SpanIds : Counted(SpanAddSpan(i, j))
    \/ \E i \in SpanIds, k \in DivIds : Counted(SpanAddDiv(i, k))
    \/ \E i \in SpanIds, p \in Payloads : Counted(SpanAddOther(i, p))
    \/ \E i, j \in SpanIds : Counted(SpanRaddSpan(i, j))
    \/ \E i \in SpanIds, k \in DivIds : Counted(SpanRaddDiv(i, k))
    \/ \E i \in SpanIds, p \in Payloads : Counted(SpanRaddOther(i, p))
    \/ \E i \in SpanIds, n \in Counts : Counted(SpanMul(i, n))
    \/ \E k \in DivIds, i \in SpanIds : Counted(DivAppend(k, i))
    \/ \E k \in DivIds, i \in SpanIds : Counted(DivAppendleft(k, i))
    \/ \E k \in DivIds, i \in SpanIds : \E x \in 0..Len(divs[k].data) : Counted(DivInsert(k, x, i))
    \/ \E k, k2 \in DivIds : Counted(DivExtend(k, k2))
    \/ \E k \in DivIds, i \in SpanIds : Counted(DivExtendIter(k, i))
    \/ \E k \in DivIds : Counted(DivCopy(k))

SpecDom == InitDom /\ [][NextDom]_vars


(***************************************************************************)
(* Rendering: _style as a function of the text, the style bits, the        *)
(* colours and the padding.  The Span rendered has any 8-bit style; a Div  *)
(* around it, when there is one, has its own attributes.  The padding is   *)
(* one an alignment call or an assignment to the attribute has left.       *)
(***************************************************************************)
Pads == {<<l, r>> : l \in 0..MaxPad, r \in 0..MaxPad}

Colors == {None, "red"}

StyleValues == 0..255

InitRender ==
    /\ ts = NoTerm
    /\ last = NoCall
    /\ ops = 0
    /\ \/ /\ spans \in {<<[Span_init(p, st, fg, bg) EXCEPT !.padding = pad]>> :
                          p \in Payloads, st \in StyleValues, fg \in Colors,
                          bg \in {None}, pad \in Pads}
          /\ divs = <<>>
       \/ /\ spans \in {<<[Span_init(p, st, None, bg) EXCEPT !.padding = <<0, 1>>]>> :
                          p \in Payloads, st \in {0, 1}, bg \in Colors}
          /\ divs \in {<<[Div_append(Div_init(st, fg, bg), 1) EXCEPT !.padding = pad]>> :
                         st \in {0, Bold, Bold + 64}, fg \in Colors, bg \in Colors,
                         pad \in Pads}

NextRender ==
    \/ \E ref \in Refs : Free(StrCall(ref))
    \/ \E ref \in Refs : Free(SetForeground(ref, "red"))
    \/ \E ref \in Refs : Free(UnsetForeground(ref))
    \/ \E ref \in Refs : Free(SetBackground(ref, "red"))
    \/ \E ref \in Refs : Free(UnsetBackground(ref))

SpecRender == InitRender /\ [][NextRender]_vars

(***************************************************************************)
(* Alignment: center / ljust / rjust on a Span, on a Div (empty, or        *)
(* holding the Span) and on a TermString, between style calls.             *)
(***************************************************************************)
AlignPayloads == {<<"a">>, <<"h", "i">>}

InitAlign ==
    \/ InitTerm
    \/ /\ ts = NoTerm
       /\ last = NoCall
       /\ ops = 0
       /\ spans \in {<<Span_init(p, st, None, None)>> :
                       p \in AlignPayloads, st \in {0, Bold}}
       /\ divs \in {<<Div_init(0, None, None)>>,
                    <<Div_append(Div_init(0, None, None), 1)>>}

NextAlign ==
    \/ \E ref \in Refs, w \in Widths : Free(Center(ref, w))
    \/ \E ref \in Refs, w \in Widths : Free(Ljust(ref, w))
    \/ \E ref \in Refs, w \in Widths : Free(Rjust(ref, w))
    \/ TSCenter
    \/ TSLjust
    \/ TSRjust
    \/ TSSetStyle
    \/ TSSetColor
    \/ TSAddStr

SpecAlign == InitAlign /\ [][NextAlign]_vars

(***************************************************************************)
(* Repetition: the source Span, repeated once, and the setters on the      *)
(* source and on the copies, before and after.                             *)
(***************************************************************************)
InitRepeat ==
    /\ ts = NoTerm
    /\ last = NoCall
    /\ ops = 0
    /\ spans \in {<<Span_init(p, st, fg, bg)>> :
                    p \in Payloads, st \in {0, 1}, fg \in Colors, bg \in Colors}
    /\ divs = <<>>

NextRepeat ==
    \/ \E n \in Counts : Len(divs) = 0 /\ Free(SpanMul(1, n))
    \/ \E ref \in Refs : Free(SetStyle(ref, 7))
    \/ \E ref \in Refs : Free(UnsetStyle(ref, 7))
    \/ \E ref \in Refs : Free(SetForeground(ref, "red"))
    \/ \E ref \in Refs : Free(UnsetForeground(ref))

SpecRepeat == InitRepeat /\ [][NextRepeat]_vars


(***************************************************************************)
(* Properties.                                                             *)
(***************************************************************************)
Aligns == {"center", "ljust", "rjust"}

Setters ==
    {"set_style", "unset_style", "set_foreground", "unset_foreground",
     "set_background", "unset_background"}

Range(f) == {f[i] : i \in DOMAIN f}

\* sub occurs in s at position i
OccursAt(s, sub, i) ==
    /\ i >= 1
    /\ i + Len(sub) - 1 <= Len(s)
    /\ SubSeq(s, i, i + Len(sub) - 1) = sub

Count(s, c) == Cardinality({i \in 1..Len(s) : s[i] = c})

\* The object a call was made on, as it was before the call.
Before(ref) == IF ref[1] = "span" THEN last.spans0[ref[2]] ELSE last.divs0[ref[2]]

\* C1: on a TermString, after any sequence of calls, esc_len is the number of
\* characters of data inside escape sequences, so len() is the number of the
\* other characters and never negative; a style or colour call leaves len()
\* as it was.
C1_EscLenTracksData ==
    Flat =>
        /\ ts.esc_len = EscBytes(ts.data)
        /\ TermString_len(ts) = Cardinality({i \in 1..Len(ts.data) :
                                    EscBytes(SubSeq(ts.data, 1, i))
                                        = EscBytes(SubSeq(ts.data, 1, i - 1))})
        /\ TermString_len(ts) >= 0
        /\ (last.op \in {"set_style", "set_color"}
                => TermString_len(ts) = TermString_len(last.ts0))

\* A style call on a TermString that already holds escape sequences and text.
C1_Witness ==
    /\ Flat
    /\ last.op = "set_style"
    /\ last.ts0.esc_len > 0
    /\ TermString_len(ts) > 0

\* C10: set_color / set_color_bg with a name missing from the table raises
\* ValueError and leaves data and esc_len as they were; a known name does not
\* raise, and no other TermString call raises ValueError.
C10_InvalidColour ==
    Flat =>
        /\ (last.op = "set_color" /\ last.x \notin DOMAIN ESCSEQ[last.y])
               => (last.err = "ValueError" /\ ts = last.ts0)
        /\ (last.op = "set_color" /\ last.x \in DOMAIN ESCSEQ[last.y])
               => (last.err = "none" /\ ts.esc_len > last.ts0.esc_len)
        /\ last.err = "ValueError"
               => (last.op = "set_color" /\ last.x \notin DOMAIN ESCSEQ[last.y])

\* An unknown colour asked of a TermString that already holds escape sequences.
C10_Witness ==
    /\ Flat
    /\ last.err = "ValueError"
    /\ last.ts0.esc_len > 0

\* The openings of the set bits, strikethrough (bit 0) outermost.
SgrNames ==
    <<"strikethrough", "invisible", "reverse", "blink", "underline", "italic",
      "dim", "bold">>

RECURSIVE Opens(_, _)
Opens(style, b) ==
    IF b > 7 THEN <<>>
    ELSE (IF Bit(style, b) = 1 THEN ESCSEQ["style"][SgrNames[b + 1]] ELSE <<>>)
             \o Opens(style, b + 1)

\* The resets, from the shared bold/dim reset outward to strikethrough's.
RECURSIVE Closes(_, _)
Closes(style, b) ==
    IF b < 0 THEN <<>>
    ELSE IF b > 5
         THEN (IF Bit(style, 7) = 1 \/ Bit(style, 6) = 1
               THEN ESCSEQ["reset"]["bold/dim"] ELSE <<>>) \o Closes(style, 5)
    ELSE (IF Bit(style, b) = 1 THEN ESCSEQ["reset"][SgrNames[b + 1]] ELSE <<>>)
             \o Closes(style, b - 1)

SetBits(style) == Cardinality({b \in 0..7 : Bit(style, b) = 1})

\* The text _style is given: a Span's data, a Div's joined children.
TextOf(ref) ==
    IF ref[1] = "span" THEN spans[ref[2]].data
    ELSE JoinStr(spans, divs[ref[2]].data, 1)

\* C3: str() of an object with style bits st and padding (l, r) is l spaces,
\* the openings of the set bits with the lowest outermost, the text, the
\* resets from bold/dim's outward, r spaces; one opening per set bit, and
\* the bold/dim reset once when either is set.
C3_StyleNesting ==
    (Structured /\ last.op = "str" /\ last.err = "none") =>
        LET o == Obj(last.x)
            t == TextOf(last.x)
        IN  /\ last.res = Spaces(o.padding[1]) \o Opens(o.style, 0) \o t
                              \o Closes(o.style, 7) \o Spaces(o.padding[2])
            /\ Count(last.res, "ESC") - Count(t, "ESC")
                   = 2 * SetBits(o.style)
                       - (IF Bit(o.style, 7) = 1 /\ Bit(o.style, 6) = 1 THEN 1 ELSE 0)

\* str() of a padded Span that is bold, dim and struck through.
C3_Witness ==
    /\ Structured
    /\ last.op = "str"
    /\ last.err = "none"
    /\ last.x = <<"span", 1>>
    /\ spans[1].style = Bold + 64 + 1
    /\ spans[1].padding = <<1, 1>>

\* C2: every Span and Div has a padding pair of non-negative integers from
\* construction on, so len() and str() never fail.
C2_PaddingDefined ==
    Structured =>
        /\ \A ref \in Refs :
               /\ Obj(ref).padding # Unset
               /\ Obj(ref).padding[1] >= 0
               /\ Obj(ref).padding[2] >= 0
        /\ (last.op \in {"len", "str"} => last.err = "none")

\* C4: str() of an object with a foreground (background) colour holds the
\* colour's opening sequence and, after it, the foreground (background)
\* reset, both inside the padding; with the colour None, a Span's str() holds
\* neither.
ColourRendered(res, o, open, reset) ==
    \E i, j \in 1..Len(res) :
        /\ OccursAt(res, open, i)
        /\ OccursAt(res, reset, j)
        /\ o.padding[1] < i
        /\ i < j
        /\ j + Len(reset) - 1 <= Len(res) - o.padding[2]

C4_ColourSequences ==
    (Structured /\ last.op = "str" /\ last.err = "none") =>
        LET o == Obj(last.x)
            fg == ESCSEQ["reset"]["foreground"]
            bg == ESCSEQ["reset"]["background"]
        IN  /\ o.foreground # None
                => ColourRendered(last.res, o, ESCSEQ["foreground"][o.foreground], fg)
            /\ o.background # None
                => ColourRendered(last.res, o, ESCSEQ["background"][o.background], bg)
            /\ (last.x[1] = "span" /\ o.foreground = None)
                => \A i \in 1..Len(last.res) : ~OccursAt(last.res, fg, i)
            /\ (last.x[1] = "span" /\ o.background = None)
                => \A i \in 1..Len(last.res) : ~OccursAt(last.res, bg, i)

\* C5: s + d, d a Div with padding (l, r) and children c1..ck, is a new Div
\* with children [s, a Span of l spaces, c1, ..., ck], d's style and colours
\* and padding (0, r); so len(s + d) = len(s) + len(d).
C5_SpanPlusDiv ==
    (Structured /\ last.op = "add_div" /\ last.err = "none") =>
        LET d == last.divs0[last.y]
            new == divs[last.res]
        IN  /\ last.res \notin 1..Len(last.divs0)
            /\ Len(new.data) = Len(d.data) + 2
            /\ new.data[1] = last.x
            /\ spans[new.data[2]].data = Spaces(d.padding[1])
            /\ SubSeq(new.data, 3, Len(new.data)) = d.data
            /\ new.style = d.style
            /\ new.foreground = d.foreground
            /\ new.background = d.background
            /\ new.padding = <<0, d.padding[2]>>
            /\ (/\ ~Span_len_raises(last.spans0[last.x])
                /\ ~Div_len_raises(last.spans0, d))
                   => /\ ~Div_len_raises(spans, new)
                      /\ Div_len(spans, new)
                             = Span_len(last.spans0[last.x]) + Div_len(last.spans0, d)

\* An unset padding counts as (0, 0).
PadOf(o) == IF o.padding = Unset THEN <<0, 0>> ELSE o.padding

\* C6: center / ljust / rjust never lower either padding component of a Span
\* or Div, and with w <= len() leave the padding as it was; on a TermString,
\* with w <= len() they leave data and esc_len as they were.
C6_PaddingOnlyGrows ==
    /\ (Structured /\ last.op \in Aligns /\ last.err = "none") =>
           LET old == Before(last.x)
               new == Obj(last.x)
           IN  /\ PadOf(new)[1] >= PadOf(old)[1]
               /\ PadOf(new)[2] >= PadOf(old)[2]
               /\ (/\ ~LenRaises(last.spans0, last.divs0, last.x)
                   /\ last.n <= LenOf(last.spans0, last.divs0, last.x))
                      => new.padding = old.padding
    /\ (Flat /\ last.op \in Aligns /\ last.n <= TermString_len(last.ts0))
           => ts = last.ts0

Realign(op, self, n, w) ==
    IF op = "center" THEN center(self, n, w)
    ELSE IF op = "ljust" THEN ljust(self, n, w)
    ELSE rjust(self, n, w)

TermRealign(op, self, w) ==
    IF op = "center" THEN TermString_center(self, w)
    ELSE IF op = "ljust" THEN TermString_ljust(self, w)
    ELSE TermString_rjust(self, w)

\* len() of the object before the call; the unpadded length when no padding
\* was assigned yet.
WidthBefore(ref) ==
    IF Before(ref).padding = Unset
    THEN (IF ref[1] = "span" THEN Span__len(Before(ref))
          ELSE Div__len(last.spans0, Before(ref)))
    ELSE LenOf(last.spans0, last.divs0, ref)

\* len() with an unassigned padding counting as (0, 0).
RECURSIVE SumWidth(_, _, _)
SumWidth(sp, ids, i) ==
    IF i > Len(ids) THEN 0
    ELSE Len(sp[ids[i]].data) + PadOf(sp[ids[i]])[1] + PadOf(sp[ids[i]])[2]
             + SumWidth(sp, ids, i + 1)

WidthOf(sp, dv, ref) ==
    IF ref[1] = "span"
    THEN Len(sp[ref[2]].data) + PadOf(sp[ref[2]])[1] + PadOf(sp[ref[2]])[2]
    ELSE SumWidth(sp, dv[ref[2]].data, 1) + PadOf(dv[ref[2]])[1] + PadOf(dv[ref[2]])[2]

\* C7: for every Span, Div or TermString and every w > len(), after
\* center(w), ljust(w) or rjust(w) len() is w (center on a Span or Div
\* leaves floor(d/2) columns left and the rest right, d = w - the unpadded
\* length), and the same call again changes nothing.
C7_AlignReachesWidth ==
    /\ (/\ Structured
        /\ last.op \in Aligns
        /\ last.n > WidthOf(last.spans0, last.divs0, last.x)) =>
           /\ last.err = "none"
           /\ ~LenRaises(spans, divs, last.x)
           /\ LenOf(spans, divs, last.x) = last.n
           /\ last.op = "center" =>
                  Obj(last.x).padding
                      = <<(last.n - InnerLen(last.x)) \div 2,
                          (last.n - InnerLen(last.x))
                              - ((last.n - InnerLen(last.x)) \div 2)>>
           /\ Realign(last.op, Obj(last.x), InnerLen(last.x), last.n) = Obj(last.x)
    /\ (Flat /\ last.op \in Aligns /\ last.n > TermString_len(last.ts0)) =>
           /\ TermString_len(ts) = last.n
           /\ ts.esc_len = last.ts0.esc_len
           /\ TermRealign(last.op, ts, last.n) = ts

\* What holds of C7: the same, for the calls that return (on a Div, those
\* whose children all have a padding assigned).
AlignReachesWidthWhenReturns ==
    /\ (/\ Structured
        /\ last.op \in Aligns
        /\ last.err = "none"
        /\ last.n > WidthBefore(last.x)) =>
           LET new == Obj(last.x)
               d == last.n - InnerLen(last.x)
           IN  /\ ~LenRaises(spans, divs, last.x)
               /\ LenOf(spans, divs, last.x) = last.n
               /\ last.op = "center" => new.padding = <<d \div 2, d - (d \div 2)>>
               /\ Realign(last.op, new, InnerLen(last.x), last.n) = new
               /\ \A ref \in Refs : ref # last.x => Obj(ref) = Before(ref)
    /\ (Flat /\ last.op \in Aligns /\ last.n > TermString_len(last.ts0)) =>
           /\ TermString_len(ts) = last.n
           /\ ts.esc_len = last.ts0.esc_len
           /\ TermRealign(last.op, ts, last.n) = ts

\* C8: no Span is a child of two distinct Divs.
C8_NoSharedChild ==
    Structured =>
        \A i \in SpanIds :
            Cardinality({k \in DivIds : i \in Range(divs[k].data)}) <= 1

\* C9: s * n is a new Div with no children when n <= 0 and n children when
\* n > 0, each a distinct new Span with s's data, style and colours; s is
\* left as it was, and a setter called on one Span changes no other Span.
C9_RepeatCopies ==
    Structured =>
        /\ last.op = "mul" =>
               LET s == last.spans0[last.x]
                   d == divs[last.res]
                   c == IF last.n > 0 THEN last.n ELSE 0
               IN  /\ last.res \notin 1..Len(last.divs0)
                   /\ Len(d.data) = c
                   /\ \A a, b \in 1..c : a # b => d.data[a] # d.data[b]
                   /\ \A a \in 1..c :
                          /\ d.data[a] \notin 1..Len(last.spans0)
                          /\ spans[d.data[a]].data = s.data
                          /\ spans[d.data[a]].style = s.style
                          /\ spans[d.data[a]].foreground = s.foreground
                          /\ spans[d.data[a]].background = s.background
                   /\ \A j \in 1..Len(last.spans0) : spans[j] = last.spans0[j]
        /\ last.op \in Setters =>
               /\ \A j \in SpanIds : <<"span", j>> # last.x => spans[j] = last.spans0[j]
               /\ \A k \in DivIds : <<"div", k>> # last.x => divs[k] = last.divs0[k]

\* A setter called on the second copy of s * 2, s bold and red.
C9_Witness ==
    /\ Structured
    /\ last.op \in Setters
    /\ Len(divs) = 1
    /\ Len(divs[1].data) = 2
    /\ last.x = <<"span", divs[1].data[2]>>
    /\ spans[1].style >= Bold
    /\ spans[1].foreground = "red"
    /\ spans[divs[1].data[1]].style >= Bold

=============================================================================
